---- MODULE Spec2Model ----
(***************************************************************************)
(* State-machine model of drivers/misc/mbox-host.c: the BMC-side driver of *)
(* the ASPEED host/BMC mailbox.  The register window, the wait queue, the  *)
(* interrupt handler, the fallback timer, the file operations (read,       *)
(* write, ioctl, poll) and probe are modelled one register access per      *)
(* step, so that every interleaving of the contexts is explored.           *)
(***************************************************************************)
EXTENDS Integers, Naturals, Sequences, FiniteSets, TLC

(***************************************************************************)
(* Program constants (mbox-host.c:32-44) and errno values.                 *)
(***************************************************************************)
MBOX_NUM_REGS == 16
MBOX_NUM_DATA_REGS == 14
MBOX_DATA_0 == 0
MBOX_STATUS_0 == 64
MBOX_STATUS_1 == 68
MBOX_BMC_CTRL == 72
MBOX_CTRL_RECV == 128
MBOX_CTRL_MASK == 2
MBOX_CTRL_SEND == 1
MBOX_INTERRUPT_0 == 80
MBOX_INTERRUPT_1 == 84
EFAULT == 14
EINVAL == 22
ERESTARTSYS == 512
IRQ_NONE == 0
IRQ_HANDLED == 1
POLLIN == 1
MBOX_HOST_IOCTL_ATN == 1
TimerFirstMs == 10
TimerPeriodMs == 500

(***************************************************************************)
(* Bounds of the model.                                                    *)
(***************************************************************************)
\* number of messages the peer asserts in one behaviour
MaxMsgs == 2
\* number of distinct user buffers a writer may pass
MaxBufs == 1
\* a length shorter than the frame: a short count, or the index of the
\* first unmapped byte of a partly mapped user buffer
ShortLen == 2
\* number of messages the peer asserts while probe is observed
MaxProbeMsgs == 1
\* number of ioctl command codes tried besides MBOX_HOST_IOCTL_ATN
MaxCmd == 2

\* the tasks that may be in read, and the one that is when a single caller
\* is observed
Readers == {1, 2}
Solo == {1}
Slots == 0 .. (MBOX_NUM_DATA_REGS - 1)
Byte == 0 .. 255

\* the register offset of payload slot i, as the loops compute it
SlotReg(i) == MBOX_DATA_0 + (i * 4)

\* an ATN ioctl that writes payload slot 3
AtnRegInPayload == MBOX_DATA_0 + 12

\* the offset the ATN ioctl writes (line 132)
AtnReg == MBOX_DATA_0 + 15

DataRegs == {SlotReg(i) : i \in Slots} \cup {AtnReg}
PlainRegs == DataRegs \cup {MBOX_INTERRUPT_0, MBOX_INTERRUPT_1}
W1CRegs == {MBOX_STATUS_0, MBOX_STATUS_1}
Offsets == PlainRegs \cup W1CRegs

\* bit b (a power of two) of byte v
Bit(v, b) == ((v \div b) % 2) = 1

\* v with bit b cleared / set
ClearBit(v, b) == IF Bit(v, b) THEN v - b ELSE v
SetBit(v, b) == IF Bit(v, b) THEN v ELSE v + b

RECURSIVE AndNot(_, _, _)
\* bitwise old & ~v over the bits below b (b a power of two), W1C semantics
AndNot(old, v, b) ==
  IF b = 0 THEN 0
  ELSE (IF Bit(old, b) /\ ~Bit(v, b) THEN b ELSE 0) + AndNot(old, v, b \div 2)

\* u8 truncation of an integer argument (mbox_outb takes a u8)
U8(x) == x % 256

\* a user byte loaded into a C char (signed), and stored back
ToChar(b) == IF b > 127 THEN b - 256 ELSE b

\* payload byte i of the k-th message the peer sends
PeerFrame(k) == [i \in Slots |-> (k * 16 + i) % 256]

\* byte i of user write buffer b, as it lies in user memory
UserBuf(b) == [i \in 0 .. MBOX_NUM_DATA_REGS |-> (b * 97 + i * 11) % 256]

\* the buffer extents tried: -1 is a range access_ok rejects, 0 a range whose
\* first byte is unmapped, ShortLen one that faults at a later byte, and the
\* last one is mapped beyond the frame
Extents == {-1, 0, ShortLen, MBOX_NUM_DATA_REGS + 1}

\* the counts tried: empty, shorter than, equal to and longer than the frame
Counts == {0, ShortLen, MBOX_NUM_DATA_REGS, MBOX_NUM_DATA_REGS + 1}

NoBuf == [i \in Slots |-> -1]

VARIABLES
  regs,       \* the register window except BMC_CTRL: offset -> byte
  ctrl,       \* MBOX_BMC_CTRL
  irq,        \* mbox_host->irq (0: none)
  irqBound,   \* mbox_host_irq is registered on the line
  timerArmed, \* poll_timer is pending
  timerDelay, \* ms from the previous expiry (or from arming) to the next
  registered, \* the misc device is registered: consumers can call in
  ppc,        \* position of mbox_host_probe
  mapped,     \* mbox_host->base maps the register window
  rmpc,       \* position of mbox_host_remove
  waitq,      \* tasks queued on mbox_host->queue
  tstate,     \* task state of each reader: "R" running, "S" interruptible
  sigpend,    \* signal_pending() of each reader
  pc,         \* position of each reader in mbox_host_read
  ri,         \* loop index i of each reader
  rext,       \* extent of each reader's buffer that is mapped
  rint,       \* __int of ___wait_event: the prepare_to_wait_event result
  rbuf,       \* what the call in progress has copied to the user buffer
  cancelled,  \* the reader's last read was cancelled by a signal
  wpc,        \* position of the writer in mbox_host_write
  wi,         \* loop index i of the writer
  wbuf,       \* which user buffer the writer passed
  wcount,     \* the count the writer passed
  wext,       \* extent of the writer's buffer that is mapped
  polpc,      \* position of the poller in mbox_host_poll
  ipc,        \* position of mbox_host_irq
  peerBuf,    \* what the peer last took out of the payload slots
  peerHas,    \* the peer holds a consumed frame it can send back
  peerSrc,    \* the user buffer peerBuf is a complete frame of (0: none)
  nAsserted,  \* messages the peer has asserted
  inFrame,    \* the payload of the message the peer asserted last
  inSrc,      \* the user buffer that message sends back (0: none)
  inClean,    \* no driver write has touched the payload slots since
  nReturned,  \* successful reads so far
  outSrc,     \* b when the payload slots hold user buffer b whole and write has
              \* sent it, -b when write has copied it and not sent it yet, else 0
  ret         \* what the step just taken returned: <<operation, caller, value>>

hw == <<regs, ctrl>>
dev == <<irq, irqBound, timerArmed, timerDelay, registered, ppc, mapped, rmpc>>
wq == <<waitq, tstate, sigpend>>
rd == <<pc, ri, rext, rint, rbuf, cancelled>>
wr == <<wpc, wi, wbuf, wcount, wext>>
peer == <<peerBuf, peerHas, peerSrc, nAsserted, inFrame, inSrc, inClean, nReturned, outSrc>>
vars == <<hw, dev, wq, rd, wr, polpc, ipc, peer, ret>>

(***************************************************************************)
(* Register access layer.  The hardware contract of MBOX_BMC_CTRL: RECV is *)
(* write-one-to-clear, MASK takes the value written, SEND is raised by     *)
(* writing one and lowered by the peer only.                               *)
(***************************************************************************)
mbox_inb(reg) == IF reg = MBOX_BMC_CTRL THEN ctrl ELSE regs[reg]

\* a control register whose SEND bit takes the value written
HwCtrlWritePlain(old, v) ==
    (IF Bit(old, MBOX_CTRL_RECV) /\ ~Bit(v, MBOX_CTRL_RECV) THEN MBOX_CTRL_RECV ELSE 0)
  + (IF Bit(v, MBOX_CTRL_MASK) THEN MBOX_CTRL_MASK ELSE 0)
  + (IF Bit(v, MBOX_CTRL_SEND) THEN MBOX_CTRL_SEND ELSE 0)

HwCtrlWrite(old, v) ==
    (IF Bit(old, MBOX_CTRL_RECV) /\ ~Bit(v, MBOX_CTRL_RECV) THEN MBOX_CTRL_RECV ELSE 0)
  + (IF Bit(v, MBOX_CTRL_MASK) THEN MBOX_CTRL_MASK ELSE 0)
  + (IF Bit(old, MBOX_CTRL_SEND) \/ Bit(v, MBOX_CTRL_SEND) THEN MBOX_CTRL_SEND ELSE 0)

\* the window <<regs, ctrl>> after iowrite8(data, base + reg) on window w
OutB(w, data, reg) ==
  IF reg = MBOX_BMC_CTRL THEN <<w[1], HwCtrlWrite(w[2], U8(data))>>
  ELSE IF reg \in W1CRegs
       THEN <<[w[1] EXCEPT ![reg] = AndNot(w[1][reg], U8(data), 128)], w[2]>>
       ELSE <<[w[1] EXCEPT ![reg] = U8(data)], w[2]>>

mbox_outb(data, reg) == OutB(<<regs, ctrl>>, data, reg)

Recv == Bit(ctrl, MBOX_CTRL_RECV)
Masked == Bit(ctrl, MBOX_CTRL_MASK)
Send == Bit(ctrl, MBOX_CTRL_SEND)

\* the interrupt line is asserted for this device
IrqLine == irqBound /\ Recv /\ ~Masked

\* the payload slots as a frame
Payload(r) == [i \in Slots |-> r[SlotReg(i)]]

(***************************************************************************)
(* wake_up(&mbox_host->queue): every queued task that sleeps is made       *)
(* runnable and leaves the queue (autoremove_wake_function).               *)
(***************************************************************************)
Woken == {t \in waitq : t \in Readers /\ tstate[t] = "S"}

\* a wake-up that is skipped when RECV is not set
wake_upIfRecv ==
  IF Recv
  THEN /\ tstate' = [t \in Readers |-> IF t \in Woken THEN "R" ELSE tstate[t]]
       /\ waitq' = waitq \ Woken
  ELSE UNCHANGED <<tstate, waitq>>

wake_up ==
  /\ tstate' = [t \in Readers |-> IF t \in Woken THEN "R" ELSE tstate[t]]
  /\ waitq' = waitq \ Woken

\* the step just taken returned nothing
NoRet == <<"none", 0, 0>>

\* the step just taken went through mbox_host->base after devm_iounmap
Oops == <<"oops", 0, 0>>

(***************************************************************************)
(* mbox_host_read (mbox-host.c:74-97).  wait_event_interruptible is        *)
(* expanded into its steps: the first test of the condition, then the loop *)
(* prepare_to_wait_event / test / schedule, and finish_wait on leaving.    *)
(***************************************************************************)

\* a wait condition that tests the whole register instead of the RECV bit
WaitConditionAnyBit == mbox_inb(MBOX_BMC_CTRL) # 0

\* the condition read waits for (line 87)
\* a wait condition that holds a second reader back while one is draining
WaitConditionExclusive ==
  /\ Bit(mbox_inb(MBOX_BMC_CTRL), MBOX_CTRL_RECV)
  /\ \A t \in Readers : pc[t] \notin {"copy", "clear"}

WaitCondition == Bit(mbox_inb(MBOX_BMC_CTRL), MBOX_CTRL_RECV)

\* read(buf, count) is called with a buffer mapped up to extent e; access_ok
\* fails for a range outside user space (line 81)
ReadCall(r, e) ==
  /\ registered
  /\ pc[r] = "idle"
  /\ rbuf' = [rbuf EXCEPT ![r] = NoBuf]
  /\ ri' = [ri EXCEPT ![r] = 0]
  /\ IF e < 0
     THEN /\ ret' = <<"read", r, -EFAULT>>
          /\ UNCHANGED <<pc, rext>>
     ELSE /\ ret' = NoRet
          /\ pc' = [pc EXCEPT ![r] = "cond0"]
          /\ rext' = [rext EXCEPT ![r] = e]
  /\ UNCHANGED <<hw, dev, wq, rint, cancelled, wr, polpc, ipc, peer>>

\* wait_event_interruptible: if (!(condition)) __wait_event_interruptible
ReadCond0(r) ==
  /\ pc[r] = "cond0"
  /\ pc' = [pc EXCEPT ![r] = IF WaitCondition THEN "copy" ELSE "prepare"]
  /\ ret' = NoRet
  /\ UNCHANGED <<hw, dev, wq, ri, rext, rint, rbuf, cancelled, wr, polpc, ipc, peer>>

\* prepare_to_wait_event: with a signal pending it returns -ERESTARTSYS and
\* does not queue; otherwise it queues the task and sets TASK_INTERRUPTIBLE
ReadPrepare(r) ==
  /\ pc[r] = "prepare"
  /\ pc' = [pc EXCEPT ![r] = "cond"]
  /\ IF sigpend[r]
     THEN /\ rint' = [rint EXCEPT ![r] = -ERESTARTSYS]
          /\ UNCHANGED <<waitq, tstate>>
     ELSE /\ rint' = [rint EXCEPT ![r] = 0]
          /\ waitq' = waitq \cup {r}
          /\ tstate' = [tstate EXCEPT ![r] = "S"]
  /\ ret' = NoRet
  /\ UNCHANGED <<hw, dev, sigpend, ri, rext, rbuf, cancelled, wr, polpc, ipc, peer>>

\* a wait loop that falls through to the drain loop when a signal ends it
WaitNextFallThrough(cond, int) ==
  IF cond \/ int # 0 THEN "copy" ELSE "sched"

\* what the wait loop does after prepare_to_wait_event: leave with the
\* condition true, leave with the signal's error (line 88), or schedule()
WaitNext(cond, int) ==
  IF cond THEN "copy" ELSE IF int # 0 THEN "idle" ELSE "sched"

\* the loop's test, and finish_wait when the loop is left
ReadCond(r) ==
  /\ pc[r] = "cond"
  /\ LET nxt == WaitNext(WaitCondition, rint[r]) IN
       /\ pc' = [pc EXCEPT ![r] = nxt]
       /\ IF nxt = "sched"
          THEN UNCHANGED <<tstate, waitq>>
          ELSE /\ tstate' = [tstate EXCEPT ![r] = "R"]
               /\ waitq' = waitq \ {r}
       /\ IF nxt = "idle"
          THEN /\ ret' = <<"read", r, rint[r]>>
               /\ sigpend' = [sigpend EXCEPT ![r] = FALSE]
               /\ rext' = [rext EXCEPT ![r] = 0]
               /\ cancelled' = [cancelled EXCEPT ![r] = TRUE]
          ELSE /\ ret' = NoRet
               /\ UNCHANGED <<sigpend, rext, cancelled>>
  /\ rint' = [rint EXCEPT ![r] = 0]
  /\ UNCHANGED <<hw, dev, ri, rbuf, wr, polpc, ipc, peer>>

\* schedule() returns once the task is runnable again
ReadSched(r) ==
  /\ pc[r] = "sched"
  /\ tstate[r] = "R"
  /\ pc' = [pc EXCEPT ![r] = "prepare"]
  /\ ret' = NoRet
  /\ UNCHANGED <<hw, dev, wq, ri, rext, rint, rbuf, cancelled, wr, polpc, ipc, peer>>

\* a drain loop that walks the slots from the last one down
ReadSlotRegReversed(i) == MBOX_DATA_0 + ((MBOX_NUM_DATA_REGS - 1 - i) * 4)

\* the register the drain loop reads for slot i (line 91)
ReadSlotReg(i) == MBOX_DATA_0 + (i * 4)

\* one turn of the drain loop (lines 90-92): __put_user faults on an unmapped
\* byte of the buffer
ReadCopy(r) ==
  /\ pc[r] = "copy"
  /\ ri[r] < MBOX_NUM_DATA_REGS
  /\ IF ri[r] >= rext[r]
     THEN /\ pc' = [pc EXCEPT ![r] = "idle"]
          /\ ret' = <<"read", r, -EFAULT>>
          /\ sigpend' = [sigpend EXCEPT ![r] = FALSE]
          /\ rext' = [rext EXCEPT ![r] = 0]
          /\ UNCHANGED <<ri, rbuf>>
     ELSE /\ rbuf' = [rbuf EXCEPT ![r][ri[r]] = mbox_inb(ReadSlotReg(ri[r]))]
          /\ ri' = [ri EXCEPT ![r] = ri[r] + 1]
          /\ pc' = [pc EXCEPT ![r] =
                      IF ri[r] + 1 < MBOX_NUM_DATA_REGS THEN "copy" ELSE "clear"]
          /\ ret' = NoRet
          /\ UNCHANGED <<sigpend, rext>>
  /\ UNCHANGED <<hw, dev, waitq, tstate, rint, cancelled, wr, polpc, ipc, peer>>

\* the value read writes to MBOX_BMC_CTRL when it is done (line 95)
ReadAck == MBOX_CTRL_RECV

\* the clear-and-unmask write and the return of p - buf (lines 95-96)
ReadClear(r) ==
  /\ pc[r] = "clear"
  /\ regs' = mbox_outb(ReadAck, MBOX_BMC_CTRL)[1]
  /\ ctrl' = mbox_outb(ReadAck, MBOX_BMC_CTRL)[2]
  /\ pc' = [pc EXCEPT ![r] = "idle"]
  /\ ret' = <<"read", r, ri[r]>>
  /\ sigpend' = [sigpend EXCEPT ![r] = FALSE]
  /\ nReturned' = nReturned + 1
  /\ rext' = [rext EXCEPT ![r] = 0]
  /\ cancelled' = [cancelled EXCEPT ![r] = FALSE]
  /\ UNCHANGED <<dev, waitq, tstate, ri, rint, rbuf, wr, polpc, ipc,
                 peerBuf, peerHas, peerSrc, nAsserted, inFrame, inSrc, inClean, outSrc>>

\* a signal is sent to a task that is in read: it becomes pending and a
\* sleeping task is made runnable (signal_wake_up)
SignalArrive(r) ==
  /\ pc[r] # "idle"
  /\ ~sigpend[r]
  /\ sigpend' = [sigpend EXCEPT ![r] = TRUE]
  /\ tstate' = [tstate EXCEPT ![r] = "R"]
  /\ ret' = NoRet
  /\ UNCHANGED <<hw, dev, waitq, rd, wr, polpc, ipc, peer>>

(***************************************************************************)
(* mbox_host_irq (mbox-host.c:175-192).  The line is shared (IRQF_SHARED), *)
(* so the handler may be entered whenever it is bound.                     *)
(***************************************************************************)

\* a handler that acknowledges by clearing RECV as well as masking
IrqAckClearing == MBOX_CTRL_RECV + MBOX_CTRL_MASK

\* a handler that asserts SEND along with the mask
IrqAckSending == MBOX_CTRL_MASK + MBOX_CTRL_SEND

\* the value the handler writes to MBOX_BMC_CTRL (line 188)
IrqAck == MBOX_CTRL_MASK

\* lines 179-180: the status read and the IRQ_NONE return
IrqEntry ==
  /\ irqBound
  /\ ipc = "idle"
  /\ IF ~mapped
     THEN \* ioread8 through a stale mapping: any value, if it returns
          /\ ipc' \in {"idle", "mask"}
          /\ ret' = Oops
     ELSE IF Bit(mbox_inb(MBOX_BMC_CTRL), MBOX_CTRL_RECV)
     THEN /\ ipc' = "mask"
          /\ ret' = NoRet
     ELSE /\ ipc' = "idle"
          /\ ret' = <<"irq", 0, IRQ_NONE>>
  /\ UNCHANGED <<hw, dev, wq, rd, wr, polpc, peer>>

\* line 188
IrqMask ==
  /\ ipc = "mask"
  /\ IF mapped
     THEN /\ regs' = mbox_outb(IrqAck, MBOX_BMC_CTRL)[1]
          /\ ctrl' = mbox_outb(IrqAck, MBOX_BMC_CTRL)[2]
          /\ ret' = NoRet
     ELSE \* iowrite8 through a stale mapping: the device is not written
          /\ UNCHANGED <<regs, ctrl>>
          /\ ret' = Oops
  /\ ipc' = "wake"
  /\ UNCHANGED <<dev, wq, rd, wr, polpc, peer>>

\* lines 190-191
IrqWake ==
  /\ ipc = "wake"
  /\ wake_up
  /\ ipc' = "idle"
  /\ ret' = <<"irq", 0, IRQ_HANDLED>>
  /\ UNCHANGED <<hw, dev, sigpend, rd, wr, polpc, peer>>

(***************************************************************************)
(* poll_timer (mbox-host.c:167-173): expires += 500 ms, wake, re-arm.      *)
(***************************************************************************)
poll_timer ==
  /\ timerArmed
  /\ timerDelay' = TimerPeriodMs
  /\ wake_up
  /\ ret' = NoRet
  /\ UNCHANGED <<hw, irq, irqBound, timerArmed, registered, ppc, mapped, rmpc, sigpend,
                 rd, wr, polpc, ipc, peer>>

(***************************************************************************)
(* mbox_host_poll (mbox-host.c:144-155), as one pass of a poll that does   *)
(* not sleep: the poll entry leaves the queue when the call is over.       *)
(***************************************************************************)

\* line 149: poll_wait puts the caller's poll entry on the queue
PollWait ==
  /\ registered
  /\ polpc = "idle"
  /\ waitq' = waitq \cup {0}
  /\ polpc' = "test"
  /\ ret' = NoRet
  /\ UNCHANGED <<hw, dev, tstate, sigpend, rd, wr, ipc, peer>>

\* a poll that reports readable only while the interrupt is not masked
PollMaskUnmasked(c) ==
  IF Bit(c, MBOX_CTRL_RECV) /\ ~Bit(c, MBOX_CTRL_MASK) THEN POLLIN ELSE 0

\* the mask poll returns for a value of MBOX_BMC_CTRL (lines 147-154)
PollMask(c) == IF Bit(c, MBOX_CTRL_RECV) THEN POLLIN ELSE 0

\* lines 151-154
PollTest ==
  /\ polpc = "test"
  /\ ret' = <<"poll", 0, PollMask(mbox_inb(MBOX_BMC_CTRL))>>
  /\ polpc' = "idle"
  /\ waitq' = waitq \ {0}
  /\ UNCHANGED <<hw, dev, tstate, sigpend, rd, wr, ipc, peer>>

(***************************************************************************)
(* mbox_host_write (mbox-host.c:99-123).                                   *)
(***************************************************************************)

\* write(buf, count) with user buffer b mapped up to extent e; access_ok
\* fails for a range outside user space (line 107)
WriteCall(b, c, e) ==
  /\ registered
  /\ wpc = "idle"
  /\ wi' = 0
  /\ IF e < 0
     THEN /\ ret' = <<"write", 0, -EFAULT>>
          /\ UNCHANGED <<wpc, wbuf, wcount, wext>>
     ELSE /\ ret' = NoRet
          /\ wpc' = "copy"
          /\ wbuf' = b
          /\ wcount' = c
          /\ wext' = e
  /\ UNCHANGED <<hw, dev, wq, rd, polpc, ipc, peer>>

\* the number of bytes the copy loop takes from the caller (line 112)
WriteLen(count) == MBOX_NUM_DATA_REGS

\* the register the copy loop writes for slot i (line 116)
WriteSlotReg(i) == MBOX_DATA_0 + (i * 4)

\* the index at which the copy loop stops: the first unmapped byte, where
\* __get_user faults (line 113), or the end of the loop
WriteStop(count, ext) == IF ext < WriteLen(count) THEN ext ELSE WriteLen(count)

RECURSIVE WriteLoopSending(_, _, _, _)
\* a copy loop that asserts SEND with every slot it writes
WriteLoopSending(w, b, i, n) ==
  IF i >= n THEN w
  ELSE WriteLoopSending(
         OutB(OutB(w, ToChar(UserBuf(b)[i]), MBOX_DATA_0 + (i * 4)),
              MBOX_CTRL_SEND, MBOX_BMC_CTRL),
         b, i + 1, n)

RECURSIVE WriteLoop(_, _, _, _)
\* the window after turns i .. n-1 of the copy loop on buffer b (lines 112-118)
WriteLoop(w, b, i, n) ==
  IF i >= n THEN w
  ELSE WriteLoop(OutB(w, ToChar(UserBuf(b)[i]), WriteSlotReg(i)), b, i + 1, n)

\* the copy loop (lines 112-118), up to its end or to the faulting byte
WriteCopy ==
  /\ wpc = "copy"
  /\ LET n == WriteStop(wcount, wext)
         w == WriteLoop(<<regs, ctrl>>, wbuf, 0, n) IN
       /\ regs' = w[1]
       /\ ctrl' = w[2]
       /\ wi' = n
       /\ inClean' = (inClean /\ n = 0)
       /\ outSrc' = IF n = 0 THEN outSrc
                    ELSE IF n = MBOX_NUM_DATA_REGS THEN -wbuf ELSE 0
       /\ IF n < WriteLen(wcount)
          THEN /\ wpc' = "idle"
               /\ ret' = <<"write", 0, -EFAULT>>
               /\ wcount' = 0
               /\ wext' = 0
          ELSE /\ wpc' = "send"
               /\ ret' = NoRet
               /\ UNCHANGED <<wcount, wext>>
  /\ UNCHANGED <<dev, wq, rd, wbuf, polpc, ipc,
                 peerBuf, peerHas, peerSrc, nAsserted, inFrame, inSrc, nReturned>>

\* lines 120-122: assert SEND and return p - buf
WriteSend ==
  /\ wpc = "send"
  /\ regs' = mbox_outb(MBOX_CTRL_SEND, MBOX_BMC_CTRL)[1]
  /\ ctrl' = mbox_outb(MBOX_CTRL_SEND, MBOX_BMC_CTRL)[2]
  /\ wpc' = "idle"
  /\ ret' = <<"write", 0, wi>>
  /\ wcount' = 0
  /\ wext' = 0
  /\ outSrc' = IF outSrc = -wbuf THEN wbuf ELSE outSrc
  /\ UNCHANGED <<dev, wq, rd, wi, wbuf, polpc, ipc,
                 peerBuf, peerHas, peerSrc, nAsserted, inFrame, inSrc, inClean, nReturned>>

(***************************************************************************)
(* mbox_host_ioctl (mbox-host.c:125-137).                                  *)
(***************************************************************************)
Cmds == 0 .. MaxCmd
Params == {417}

\* the return value for a command code (lines 130-136)
IoctlRet(cmd) == IF cmd = MBOX_HOST_IOCTL_ATN THEN 0 ELSE -EINVAL

Ioctl(cmd, param) ==
  /\ registered
  /\ IF cmd = MBOX_HOST_IOCTL_ATN
     THEN /\ regs' = mbox_outb(param, AtnReg)[1]
          /\ ctrl' = mbox_outb(param, AtnReg)[2]
     ELSE UNCHANGED hw
  /\ ret' = <<"ioctl", cmd, IoctlRet(cmd)>>
  /\ UNCHANGED <<dev, wq, rd, wr, polpc, ipc, peer>>

(***************************************************************************)
(* The peer (the host side of the mailbox).  It puts a frame in the        *)
(* payload slots and raises RECV, only while RECV is clear; it takes the   *)
(* frame out when it sees SEND, and lowers SEND.                           *)
(***************************************************************************)
PeerDeliver(echo) ==
  /\ ~Recv
  /\ nAsserted < MaxMsgs
  /\ echo => peerHas
  /\ LET f == IF echo THEN peerBuf ELSE PeerFrame(nAsserted + 1) IN
       /\ regs' = [o \in Offsets |->
                     IF \E i \in Slots : o = SlotReg(i)
                     THEN f[CHOOSE i \in Slots : o = SlotReg(i)]
                     ELSE regs[o]]
       /\ inFrame' = f
  /\ ctrl' = SetBit(ctrl, MBOX_CTRL_RECV)
  /\ nAsserted' = nAsserted + 1
  /\ inSrc' = IF echo THEN peerSrc ELSE 0
  /\ inClean' = TRUE
  /\ outSrc' = 0
  /\ ret' = NoRet
  /\ UNCHANGED <<dev, wq, rd, wr, polpc, ipc, peerBuf, peerHas, peerSrc, nReturned>>

PeerConsume ==
  /\ Send
  /\ peerBuf' = Payload(regs)
  /\ peerHas' = TRUE
  /\ peerSrc' = IF outSrc > 0 THEN outSrc ELSE 0
  /\ ctrl' = ClearBit(ctrl, MBOX_CTRL_SEND)
  /\ ret' = NoRet
  /\ UNCHANGED <<regs, dev, wq, rd, wr, polpc, ipc,
                 nAsserted, inFrame, inSrc, inClean, nReturned, outSrc>>

(***************************************************************************)
(* mbox_host_probe and mbox_host_config_irq (mbox-host.c:194-290).         *)
(***************************************************************************)

\* lines 234-258: allocation, resource lookup and mapping, each may fail
ProbeMap ==
  /\ ppc = "start"
  /\ \E ok \in BOOLEAN :
       /\ ppc' = IF ok THEN "misc" ELSE "failed"
       /\ mapped' = ok
  /\ ret' = NoRet
  /\ UNCHANGED <<hw, irq, irqBound, timerArmed, timerDelay, registered, rmpc,
                 wq, rd, wr, polpc, ipc, peer>>

\* lines 260-268: misc_register
ProbeRegister ==
  /\ ppc = "misc"
  /\ \E ok \in BOOLEAN :
       /\ ppc' = IF ok THEN "irqmap" ELSE "failed"
       /\ registered' = ok
       /\ mapped' = ok
  /\ ret' = NoRet
  /\ UNCHANGED <<hw, irq, irqBound, timerArmed, timerDelay, rmpc,
                 wq, rd, wr, polpc, ipc, peer>>

\* lines 200-202: irq_of_parse_and_map
ConfigIrqMap ==
  /\ ppc = "irqmap"
  /\ \E n \in {0, 1} :
       /\ irq' = n
       /\ ppc' = IF n = 0 THEN "select" ELSE "request"
  /\ ret' = NoRet
  /\ UNCHANGED <<hw, irqBound, timerArmed, timerDelay, registered, mapped, rmpc,
                 wq, rd, wr, polpc, ipc, peer>>

\* lines 204-210: devm_request_irq
ConfigIrqRequest ==
  /\ ppc = "request"
  /\ \E ok \in BOOLEAN :
       /\ irqBound' = ok
       /\ irq' = IF ok THEN irq ELSE 0
       /\ ppc' = IF ok THEN "int0" ELSE "select"
  /\ ret' = NoRet
  /\ UNCHANGED <<hw, timerArmed, timerDelay, registered, mapped, rmpc,
                 wq, rd, wr, polpc, ipc, peer>>

\* the register writes of lines 216-223, in order: <<position, value, register>>
ConfigWrites ==
  << <<"int0", 0, MBOX_INTERRUPT_0>>,
     <<"int1", 0, MBOX_INTERRUPT_1>>,
     <<"st0", 255, MBOX_STATUS_0>>,
     <<"st1", 255, MBOX_STATUS_1>>,
     <<"ctl", MBOX_CTRL_RECV, MBOX_BMC_CTRL>> >>

ConfigWrite ==
  \E k \in 1 .. Len(ConfigWrites) :
    /\ ppc = ConfigWrites[k][1]
    /\ regs' = mbox_outb(ConfigWrites[k][2], ConfigWrites[k][3])[1]
    /\ ctrl' = mbox_outb(ConfigWrites[k][2], ConfigWrites[k][3])[2]
    /\ ppc' = IF k < Len(ConfigWrites) THEN ConfigWrites[k + 1][1] ELSE "select"
    /\ ret' = NoRet
    /\ UNCHANGED <<irq, irqBound, timerArmed, timerDelay, registered, mapped, rmpc,
                   wq, rd, wr, polpc, ipc, peer>>

\* lines 272-281: with no irq the timer is set up and armed
ProbeSelect ==
  /\ ppc = "select"
  /\ ppc' = "done"
  /\ IF irq # 0
     THEN UNCHANGED <<timerArmed, timerDelay>>
     ELSE /\ timerArmed' = TRUE
          /\ timerDelay' = TimerFirstMs
  /\ ret' = <<"probe", 0, 0>>
  /\ UNCHANGED <<hw, irq, irqBound, registered, mapped, rmpc,
                 wq, rd, wr, polpc, ipc, peer>>

(***************************************************************************)
(* mbox_host_remove (mbox-host.c:292-303), and the release of the managed  *)
(* interrupt by the driver core once remove has returned.                  *)
(***************************************************************************)

\* line 295: misc_deregister
RemoveDeregister ==
  /\ ppc = "done"
  /\ rmpc = "idle"
  /\ registered' = FALSE
  /\ rmpc' = "timer"
  /\ ret' = NoRet
  /\ UNCHANGED <<hw, irq, irqBound, timerArmed, timerDelay, ppc, mapped,
                 wq, rd, wr, polpc, ipc, peer>>

\* lines 296-297: del_timer_sync, in the timer variant only
RemoveTimer ==
  /\ rmpc = "timer"
  /\ timerArmed' = IF irq = 0 THEN FALSE ELSE timerArmed
  /\ rmpc' = "unmap"
  /\ ret' = NoRet
  /\ UNCHANGED <<hw, irq, irqBound, timerDelay, registered, ppc, mapped,
                 wq, rd, wr, polpc, ipc, peer>>

\* line 298: devm_iounmap
RemoveUnmap ==
  /\ rmpc = "unmap"
  /\ mapped' = FALSE
  /\ rmpc' = "free"
  /\ ret' = NoRet
  /\ UNCHANGED <<hw, irq, irqBound, timerArmed, timerDelay, registered, ppc,
                 wq, rd, wr, polpc, ipc, peer>>

\* lines 299-302: devm_kfree and return
RemoveFree ==
  /\ rmpc = "free"
  /\ rmpc' = "devres"
  /\ ret' = <<"remove", 0, 0>>
  /\ UNCHANGED <<hw, irq, irqBound, timerArmed, timerDelay, registered, ppc,
                 mapped, wq, rd, wr, polpc, ipc, peer>>

\* the interrupt requested with devm_request_irq (lines 204-205) is freed by
\* the driver core after remove has returned; free_irq waits for a handler
\* that is running
DevresRelease ==
  /\ rmpc = "devres"
  /\ ipc = "idle"
  /\ irqBound' = FALSE
  /\ rmpc' = "gone"
  /\ ret' = NoRet
  /\ UNCHANGED <<hw, irq, timerArmed, timerDelay, registered, ppc, mapped,
                 wq, rd, wr, polpc, ipc, peer>>

(***************************************************************************)
(* Initial states and specifications.                                      *)
(***************************************************************************)
InitRest ==
  /\ waitq = {}
  /\ tstate = [r \in Readers |-> "R"]
  /\ sigpend = [r \in Readers |-> FALSE]
  /\ pc = [r \in Readers |-> "idle"]
  /\ ri = [r \in Readers |-> 0]
  /\ rext = [r \in Readers |-> 0]
  /\ rint = [r \in Readers |-> 0]
  /\ rbuf = [r \in Readers |-> NoBuf]
  /\ cancelled = [r \in Readers |-> FALSE]
  /\ wpc = "idle" /\ wi = 0 /\ wbuf = 1 /\ wcount = 0 /\ wext = 0
  /\ polpc = "idle"
  /\ ipc = "idle"
  /\ peerBuf = NoBuf /\ peerHas = FALSE /\ peerSrc = 0
  /\ nAsserted = 0 /\ inFrame = NoBuf /\ inSrc = 0 /\ inClean = TRUE
  /\ nReturned = 0 /\ outSrc = 0
  /\ ret = NoRet

\* the device after a successful probe, in the interrupt or the timer variant
Init ==
  /\ regs = [o \in Offsets |-> 0]
  /\ ctrl = 0
  /\ registered = TRUE
  /\ ppc = "done"
  /\ mapped = TRUE
  /\ rmpc = "idle"
  /\ \E n \in {0, 1} :
       /\ irq = n
       /\ irqBound = (n # 0)
       /\ timerArmed = (n = 0)
  /\ timerDelay = TimerFirstMs
  /\ InitRest

\* the device before probe: firmware left the enable and status registers
\* set; the peer may assert a message before the driver is there
InitProbe ==
  /\ regs = [o \in Offsets |-> IF o \in DataRegs THEN 0 ELSE 255]
  /\ ctrl = 0
  /\ registered = FALSE
  /\ ppc = "start"
  /\ mapped = FALSE
  /\ rmpc = "idle"
  /\ irq = 0 /\ irqBound = FALSE /\ timerArmed = FALSE
  /\ timerDelay = TimerFirstMs
  /\ InitRest

\* the steps of read by reader r, called with a buffer extent of E
ReadOps(r, E) ==
  \/ \E e \in E : ReadCall(r, e)
  \/ ReadCond0(r)
  \/ ReadPrepare(r)
  \/ ReadCond(r)
  \/ ReadSched(r)
  \/ ReadCopy(r)
  \/ ReadClear(r)

\* the steps of write, called with a buffer of B, a count of C, an extent of E
WriteOps(B, C, E) ==
  \/ \E b \in B, c \in C, e \in E : WriteCall(b, c, e)
  \/ WriteCopy
  \/ WriteSend

\* a buffer mapped beyond the frame
FullExtent == {MBOX_NUM_DATA_REGS + 1}

FrameCount == {MBOX_NUM_DATA_REGS}

Reader == \E r \in Solo : ReadOps(r, Extents) \/ SignalArrive(r)

FrameWriter == WriteOps({1}, FrameCount, FullExtent)

Writer == WriteOps(1 .. MaxBufs, Counts, Extents)

Control == \E cmd \in Cmds, param \in Params : Ioctl(cmd, param)

Poller == PollWait \/ PollTest

Irq == IrqEntry \/ IrqMask \/ IrqWake

PeerFresh == PeerDeliver(FALSE)

PeerEcho == PeerDeliver(TRUE)

Probe ==
  \/ ProbeMap
  \/ ProbeRegister
  \/ ConfigIrqMap
  \/ ConfigIrqRequest
  \/ ConfigWrite
  \/ ProbeSelect

\* the attached device in use: readers, a writer of whole frames, a poller,
\* the notification source and the peer
Next == Reader \/ FrameWriter \/ Poller \/ Irq \/ poll_timer \/ PeerFresh

Spec == Init /\ [][Next]_vars

\* a reader that always passes a buffer mapped beyond the frame, and is
\* never sent a signal
PlainReader == \E r \in Solo : ReadOps(r, FullExtent)

\* the attached device with a reader that is never cancelled
NextLive == PlainReader \/ Irq \/ poll_timer \/ PeerFresh

(***************************************************************************)
(* Fair scheduling: a reader that can take a step takes it; an asserted    *)
(* interrupt line enters the handler and the handler runs to its end; the  *)
(* armed timer fires.  A shared line's interrupts for other devices and    *)
(* the peer's deliveries are not owed.                                     *)
(***************************************************************************)
Fairness ==
  /\ \A r \in Solo : WF_vars(ReadOps(r, FullExtent))
  /\ WF_vars(IrqLine /\ IrqEntry)
  /\ WF_vars(IrqMask)
  /\ WF_vars(IrqWake)
  /\ WF_vars(poll_timer)

SpecLive == Init /\ [][NextLive]_vars /\ Fairness

\* a writer of whole frames from any of the user buffers
RoundTripWriter == WriteOps(1 .. MaxBufs, FrameCount, FullExtent)

\* the round trip: frames written by the driver are taken by the peer and
\* delivered back, next to frames of the peer's own
NextRT ==
  PlainReader \/ RoundTripWriter \/ PeerConsume \/ PeerEcho \/ PeerFresh
    \/ Irq \/ poll_timer

SpecRT == Init /\ [][NextRT]_vars

\* calls with every kind of argument: buffers unmapped from the first or a
\* later byte, short and long counts, unknown command codes
NextFault ==
  \/ \E r \in Solo : ReadOps(r, Extents)
  \/ Writer
  \/ Control
  \/ PeerFresh
  \/ poll_timer

\* the attached device in the timer variant
InitTimer == Init /\ ~irqBound

SpecFault == InitTimer /\ [][NextFault]_vars

\* probe running next to everything that can use the device, the peer
\* asserting at most MaxProbeMsgs messages
NextProbe ==
  \/ Probe
  \/ PlainReader
  \/ \E r \in Solo : SignalArrive(r)
  \/ FrameWriter
  \/ Poller
  \/ Irq
  \/ poll_timer
  \/ (nAsserted < MaxProbeMsgs /\ PeerFresh)

SpecProbe == InitProbe /\ [][NextProbe]_vars

\* no file operation is in progress
Quiet == polpc = "idle" /\ wpc = "idle" /\ \A r \in Readers : pc[r] = "idle"

\* detach, begun when no file operation is in progress
Remove ==
  \/ (Quiet /\ RemoveDeregister)
  \/ RemoveTimer
  \/ RemoveUnmap
  \/ RemoveFree
  \/ DevresRelease

\* the life of a device instance: attach, use by one reader, detach
NextLife == Probe \/ PlainReader \/ Irq \/ poll_timer \/ PeerFresh \/ Remove

SpecLife == InitProbe /\ [][NextLife]_vars

\* two tasks in read on the same device at once; nothing in mbox_host_read
\* or mbox_host_open keeps a second caller out
Racers == \E r \in Readers : ReadOps(r, FullExtent)

NextRace == Racers \/ Irq \/ poll_timer \/ PeerFresh

SpecRace == Init /\ [][NextRace]_vars

(***************************************************************************)
(* Properties of read, the notification source and poll.                   *)
(***************************************************************************)

\* reader r is in the drain loop or at the clear write
Draining(r) == pc[r] \in {"copy", "clear"}

\* reader r takes a step of read
ReadStep(r) == <<pc[r], ri[r]>>' # <<pc[r], ri[r]>>

\* C1: a read starts to drain the payload only in a step that found RECV
\* set, at entry or after a wake-up; a read that tests the condition while
\* RECV is unset goes back to waiting (or ends with the signal's error), and
\* a read returns a byte count only from the end of a drain that began so.
C1_NoSpuriousRead ==
  [][\A r \in Readers :
       /\ (~Draining(r) /\ Draining(r)') => Recv
       /\ (pc[r] \in {"cond0", "cond"} /\ ReadStep(r) /\ ~Recv)
            => /\ pc'[r] \in {"prepare", "sched", "idle"}
               /\ rbuf'[r] = NoBuf
               /\ pc'[r] = "idle" => ret' = <<"read", r, -ERESTARTSYS>>
       /\ (ret' # ret /\ ret'[1] = "read" /\ ret'[2] = r /\ ret'[3] >= 0)
            => pc[r] = "clear"]_vars

\* C1 witness: a sleeping reader was woken by a timer tick with no message
\* ever asserted, and is about to test RECV again
C1_Witness ==
  \E r \in Readers :
    /\ pc[r] = "sched" /\ tstate[r] = "R" /\ ~sigpend[r]
    /\ timerArmed /\ timerDelay = TimerPeriodMs
    /\ nAsserted = 0 /\ ~Recv

\* a message asserted by the peer has not been returned by a read yet
Pending == nAsserted > nReturned

\* C6: poll writes no register; it is on the wait queue before it reads
\* RECV; it reports readable exactly while a message asserted by the peer
\* has not yet been returned by a completed read, masked or not.
C6_PollReadable ==
  /\ [](polpc = "test" => 0 \in waitq)
  /\ [](ret[1] = "poll" => (ret[3] = POLLIN <=> Pending))
  /\ [](ret[1] = "poll" => ret[3] \in {0, POLLIN})
  /\ [][polpc' # polpc => UNCHANGED <<regs, ctrl>>]_vars

\* C6 witness: poll reports readable after the handler has masked RECV
C6_Witness == ret = <<"poll", 0, POLLIN>> /\ Masked /\ Recv /\ irqBound

C2_ExactlyOnce ==
  /\ [](nReturned <= nAsserted /\ nAsserted <= nReturned + 1)
  /\ [](\A r \in Readers :
          (pc[r] = "clear" /\ inClean) => rbuf[r] = PeerFrame(nReturned + 1))
  /\ \A k \in 1 .. MaxMsgs : (nAsserted >= k) ~> (nReturned >= k)

\* C3: whenever RECV is set and a reader is in read, blocked or just
\* entered, that read eventually returns.
C3_NoLostWakeup ==
  \A r \in Readers : (Recv /\ pc[r] # "idle") ~> (pc[r] = "idle")

(***************************************************************************)
(* Properties of the RECV bit, the round trip, write, the error paths and  *)
(* probe.                                                                  *)
(***************************************************************************)

\* a reader performs the clear write that ends a successful read
ReadCompletes == \E r \in Readers : pc[r] = "clear" /\ pc'[r] = "idle"

\* probe performs the write to MBOX_BMC_CTRL that ends mbox_host_config_irq
AttachClears == irqBound /\ ppc = "ctl" /\ ppc' # "ctl"

\* C4 as stated: RECV goes from set to unset only in the step that is the
\* clear write of a successful read, and in no step of the handler, the
\* timer, write, a signal, poll or probe.
C4_OnlyReadClears == [][(Recv /\ ~Recv') => ReadCompletes]_vars

\* C4: RECV goes from set to unset only in the clear write of a successful
\* read or, in the interrupt variant, in the write to MBOX_BMC_CTRL that
\* ends probe's interrupt configuration; never in a step of the handler,
\* the timer, write, a signal or poll.
C4_OnlyReadOrAttachClears ==
  [][(Recv /\ ~Recv') => (ReadCompletes \/ AttachClears)]_vars

\* C4 witness: probe has finished in the interrupt variant, the one message
\* the peer asserted was returned by no read, and RECV is clear
C4_Witness ==
  irqBound /\ ppc = "done" /\ nAsserted = 1 /\ nReturned = 0 /\ ~Recv

\* the frame-sized prefix of user buffer b
Frame(b) == [i \in Slots |-> UserBuf(b)[i]]

\* C5: when write has sent user buffer B, the peer has taken the payload
\* slots and delivered them back with RECV, and no write touched the slots
\* meanwhile, the peer got B and the read that drains the frame has copied
\* exactly B, byte i from slot i.
C5_RoundTrip ==
  /\ (peerHas /\ peerSrc # 0) => peerBuf = Frame(peerSrc)
  /\ \A r \in Readers :
       (pc[r] = "clear" /\ inSrc # 0 /\ inClean)
         => rbuf[r] = Frame(inSrc) /\ ri[r] = MBOX_NUM_DATA_REGS

\* C5 witness: a read has drained a frame that the peer delivered back
\* from a write
C5_Witness ==
  \E r \in Readers : pc[r] = "clear" /\ inSrc # 0 /\ inClean /\ Recv

\* min(L, frame size)
MinLen(L) == IF L < MBOX_NUM_DATA_REGS THEN L ELSE MBOX_NUM_DATA_REGS

\* C8: a write whose buffer is mapped for its whole length L returns
\* min(L, frame size), having written that many slots.
C8_WriteCount ==
  [][(wpc # "idle" /\ wpc' = "idle" /\ wext >= wcount)
       => ret' = <<"write", 0, MinLen(wcount)>> /\ wi' = MinLen(wcount)]_vars

\* C9: a step in which read, write or ioctl returns -EFAULT or -EINVAL
\* leaves every register as it was.
C9_FaultNoChange ==
  [][(ret'[1] \in {"read", "write", "ioctl"} /\ ret'[3] \in {-EFAULT, -EINVAL})
       => UNCHANGED <<regs, ctrl>>]_vars

\* C10: while the misc device is registered, exactly one of the interrupt
\* handler and the timer is active.
C10_ExactlyOneSource == registered => (irqBound # timerArmed)

(***************************************************************************)
(* Properties of detach, the timer, the handler, the drain, write, ioctl,  *)
(* the control register and concurrent readers.                            *)
(***************************************************************************)

\* C11: once the register window is unmapped no notification source is
\* left: the handler is not bound and not running, the timer is not armed,
\* and no step goes through the stale mapping.
C11_QuiescedBeforeUnmap ==
  /\ ~mapped => (~irqBound /\ ~timerArmed /\ ipc = "idle")
  /\ ret # Oops

\* a reader is made runnable by a step that is not its own
WokenByOther(r) == tstate[r] = "S" /\ tstate'[r] = "R" /\ pc'[r] = pc[r]

\* C12: the timer is armed only when no interrupt line was resolved, with
\* the 10 ms delay; the first tick moves the delay to 500 ms, where it
\* stays; a tick leaves the timer armed and every reader runnable whether
\* or not RECV is set; while armed the timer can always fire, and only
\* remove's del_timer_sync disarms it.
C12_TimerPeriod ==
  /\ [](timerArmed => (irq = 0 /\ ~irqBound
                        /\ timerDelay \in {TimerFirstMs, TimerPeriodMs}
                        /\ ENABLED poll_timer))
  /\ [][(~timerArmed /\ timerArmed') => timerDelay' = TimerFirstMs]_vars
  /\ [][(timerDelay' # timerDelay \/ (~irqBound /\ \E r \in Readers : WokenByOther(r)))
          => /\ timerArmed /\ timerArmed'
             /\ timerDelay' = TimerPeriodMs
             /\ \A r \in Readers : tstate'[r] = "R"
             /\ UNCHANGED <<regs, ctrl>>]_vars
  /\ [][(timerArmed /\ ~timerArmed') => (rmpc = "timer" /\ rmpc' = "unmap")]_vars

\* C12 witness: after probe found no interrupt line, a tick at the steady
\* period has woken a sleeping reader although no message was ever asserted
C12_Witness ==
  /\ ppc = "done" /\ irq = 0 /\ timerArmed /\ timerDelay = TimerPeriodMs
  /\ nAsserted = 0 /\ ~Recv
  /\ \E r \in Readers : pc[r] = "sched" /\ tstate[r] = "R"

\* C13: a handler run that reads RECV unset returns IRQ_NONE, writes no
\* register and wakes nobody; one that reads RECV set writes the mask value
\* to MBOX_BMC_CTRL (RECV and SEND stay as they are, and a register that is
\* already masked does not change), then wakes every sleeping reader, then
\* returns IRQ_HANDLED.  No step of the handler waits for anything.
C13_HandlerRun ==
  /\ [](ipc = "mask" => ENABLED IrqMask)
  /\ [](ipc = "wake" => ENABLED IrqWake)
  /\ [][(ipc = "idle" /\ ret' = <<"irq", 0, IRQ_NONE>>)
          => (~Recv /\ ipc' = "idle" /\ UNCHANGED <<regs, ctrl, waitq, tstate>>)]_vars
  /\ [][(ipc = "idle" /\ ipc' = "mask")
          => (Recv /\ UNCHANGED <<regs, ctrl, waitq, tstate>>)]_vars
  /\ [][(ipc = "mask" /\ ipc' # "mask")
          => /\ ipc' = "wake"
             /\ ctrl' = SetBit(ctrl, MBOX_CTRL_MASK)
             /\ Masked => ctrl' = ctrl
             /\ UNCHANGED <<regs, waitq, tstate>>]_vars
  /\ [][(ipc = "wake" /\ ipc' # "wake")
          => /\ ipc' = "idle"
             /\ ret' = <<"irq", 0, IRQ_HANDLED>>
             /\ \A r \in Readers : tstate'[r] = "R"
             /\ UNCHANGED <<regs, ctrl>>]_vars

\* C13 witness: the handler has run to its end again while RECV was still
\* set and already masked
C13_Witness ==
  /\ ret = <<"irq", 0, IRQ_HANDLED>> /\ Recv /\ Masked
  /\ Send /\ \E r \in Readers : Draining(r)

\* the drain of a successful read: RECV is set while a reader drains, the
\* clear write comes after all the slots were read in order, the frame is
\* the one the peer delivered unless a write touched the slots meanwhile,
\* and the read returns the frame size with RECV and MASK clear
DrainInOrder ==
  /\ [](\A r \in Readers : Draining(r) => Recv)
  /\ [](\A r \in Readers :
          pc[r] = "clear"
            => ri[r] = MBOX_NUM_DATA_REGS /\ (inClean => rbuf[r] = inFrame))
  /\ [][\A r \in Readers :
          (pc[r] = "copy" /\ ri'[r] # ri[r])
            => /\ ri'[r] = ri[r] + 1
               /\ rbuf'[r][ri[r]] = regs[SlotReg(ri[r])]
               /\ UNCHANGED <<regs, ctrl>>]_vars
  /\ [][\A r \in Readers :
          (pc[r] = "clear" /\ pc'[r] = "idle")
            => /\ ret' = <<"read", r, MBOX_NUM_DATA_REGS>>
               /\ ~Recv' /\ ~Masked']_vars

\* C14: a successful read drains slots 0..13 in order while RECV stays set,
\* clears and unmasks with one write after the last slot, returns the frame
\* size, and from that write until the peer asserts again RECV and MASK are
\* both clear.
C14_DrainThenClear == DrainInOrder /\ [](~Recv => ~Masked)

\* C15: a write that succeeds asserts SEND in its last step, with all 14
\* slots written before and no slot written in that step; the copy loop
\* leaves SEND as it is, so a write that fails never asserts it; the step
\* that asserts SEND can be taken whether or not SEND is pending.
C15_SendLast ==
  /\ [](wpc = "send" => (ENABLED WriteSend /\ wi = MBOX_NUM_DATA_REGS))
  /\ [][(wpc = "copy" /\ wpc' # "copy")
          => /\ Send' = Send
             /\ wpc' = "idle" <=> ret' = <<"write", 0, -EFAULT>>
             /\ wpc' = "send" <=> ret' = NoRet]_vars
  /\ [][(wpc = "send" /\ wpc' # "send")
          => /\ ret' = <<"write", 0, MBOX_NUM_DATA_REGS>>
             /\ wpc' = "idle"
             /\ Send' /\ regs' = regs]_vars
  /\ [][(ret' # ret /\ ret'[1] = "write" /\ ret'[3] < 0) => Send' = Send]_vars
  /\ [][(ret' # ret /\ ret'[1] = "write" /\ ret'[3] >= 0) => wpc = "send"]_vars

\* C15 witness: a write has written all its slots and is about to assert
\* SEND while the SEND of an earlier write is still pending
C15_Witness == wpc = "send" /\ wi = MBOX_NUM_DATA_REGS /\ Send

\* the offsets read drains and write fills
PayloadRegs == {ReadSlotReg(i) : i \in Slots} \cup {WriteSlotReg(i) : i \in Slots}

\* C16: ioctl with MBOX_HOST_IOCTL_ATN writes the low byte of its parameter
\* to one offset, which is no payload slot, leaves every other register and
\* RECV, MASK and SEND as they are, and returns 0; ioctl with any other
\* command writes nothing and returns -EINVAL.
C16_AtnOnly ==
  [][(ret'[1] = "ioctl")
       => /\ ctrl' = ctrl
          /\ \A o \in PayloadRegs : regs'[o] = regs[o]
          /\ IF ret'[2] = MBOX_HOST_IOCTL_ATN
             THEN /\ ret'[3] = 0
                  /\ \E o \in Offsets \ PayloadRegs, p \in Params :
                       regs' = [regs EXCEPT ![o] = p % 256]
             ELSE /\ ret'[3] = -EINVAL
                  /\ regs' = regs]_vars

\* C16 witness: the ATN ioctl has returned with its byte in the register
\* while a frame is pending and a reader is draining it
C16_Witness ==
  /\ ret = <<"ioctl", MBOX_HOST_IOCTL_ATN, 0>>
  /\ \E p \in Params : regs[AtnReg] = p % 256
  /\ Recv /\ \E r \in Readers : pc[r] = "copy" /\ ri[r] > 3

TestsCondition(r) == pc[r] \in {"cond0", "cond"} /\ pc'[r] # pc[r]

\* C18: read takes no lock and looks at nothing but RECV: a reader that tests
\* the condition with RECV set enters the drain loop whatever another reader
\* is doing, and its final write clears RECV whichever message raised it.
\* So two readers can return the same frame, and the later one's write can
\* clear the RECV of a message that neither drained (C18_Witness).
C18_NoSerialization ==
  /\ [][\A r \in Readers :
          (TestsCondition(r) /\ Recv) => pc'[r] = "copy"]_vars
  /\ [][\A r \in Readers :
          (pc[r] = "clear" /\ pc'[r] = "idle")
             => /\ ~Recv'
                /\ ret' = <<"read", r, MBOX_NUM_DATA_REGS>>]_vars
  /\ [](\A r \in Readers : pc[r] = "clear" => ENABLED ReadClear(r))

\* C18 witness: the peer has asserted two messages, two reads have returned,
\* both with the first frame, and RECV is clear: the second message was
\* acknowledged without being read
C18_Witness ==
  /\ nAsserted = 2 /\ nReturned = 2 /\ ~Recv
  /\ inFrame = PeerFrame(2)
  /\ \A r \in Readers : pc[r] = "idle" /\ rbuf[r] = PeerFrame(1)
  /\ ret[1] = "read" /\ ret[3] = MBOX_NUM_DATA_REGS

\* the peer takes the outbound frame in this step
PeerTakes == peerHas' /\ ret' = NoRet /\ UNCHANGED <<regs, dev, wq, rd, wr, polpc, ipc>>

C20_AttachBeforeConsumers ==
  /\ [](registered => ppc = "done")
  /\ [][(AttachClears /\ Recv) => \A r \in Readers : pc[r] = "idle"]_vars

====
